---- MODULE Spec2Model ----
(***************************************************************************)
(* A model of the two notebooks of jonglees/networks:                      *)
(*   NetworkX.ipynb                             (graph, metrics, clusters) *)
(*   NetworkClusteringEnrichmentAnalysis.ipynb  (clusters, ORA, GSEA)      *)
(* A notebook is a sequence of cells; pc is the position of the run and    *)
(* every cell (or statement of a cell) is an action.  The library calls    *)
(* the cells make (networkx 3.x, pandas, gseapy) are modelled by what the  *)
(* call computes, at the line of the notebook that makes the call.         *)
(* Floating-point values are kept as exact fractions <<num, den>>.         *)
(***************************************************************************)
EXTENDS Integers, Sequences, FiniteSets, TLC

\* ------------------------------------------------------------- bounds
\* Nodes the free graph construction (any add_node / add_edge sequence) uses.
MaxNodes == 4

\* Edges the free graph construction adds.
MaxEdges == 5

\* Edges of the pool the loaded network file may hold.
MaxGmlEdges == 5

\* Rows of the cancer gene reference table (annotation on its own).
MaxRefRows == 2
MaxFileNodes == 3
MaxFileEdges == 2
MaxRuns == 2
MaxIsolated == 21

\* --------------------------------------------------- program constants
\* gp.gsea(...) on all nodes passes no min_size / max_size: gseapy's defaults.
GseaMinSize == 15

GseaMaxSize == 500

\* communityGSEA passes min_size=1.
CommunityMinSize == 1

\* i = 3: the row of the GSEA table whose leading-edge genes are drawn.
TermIndex == 3

\* for i in range(10): the rows of the per-community ORA table.
TopRows == 10

\* communities[0], communities[1], communities[2] are analysed.
TopCommunities == 3
LayoutSeed == 50
PaletteSize == 20

\* Node identifiers, in the order the model introduces them.
NodeSeq == <<"A", "B", "C", "D", "E", "F", "G", "H", "I", "J", "K", "L",
             "M", "N", "O", "P", "Q", "R", "S", "T", "U", "V", "W", "X">>

VARIABLES
    nb,            \* which notebook is running
    pc,            \* the cell the run has reached
    script,        \* statements of the "create a graph" cell executed; -1: free construction
    nodeList,      \* G._node: the nodes in insertion order
    adj,           \* G._adj: node -> set of neighbours
    sorted_list,   \* the degree table of the "sort by degree" cell
    closeness,     \* nx.closeness_centrality(G): node -> <<num, den>>
    clustering,    \* nx.clustering(G): node -> <<num, den>>
    comm,          \* the detector's working dict: label node -> community (a set)
    dq,            \* the gain of the detector's last best merge (numerator over 2*m*m)
    communities,   \* the notebook's list of communities
    subgraphs,     \* G.subgraph(community) per community: the node set of each view
    communityDict, \* node -> index of its community (communityDict / node_community_map)
    detected,      \* history: the list the detector returned
    cancer_csv,    \* the rows of cancer_genome_catalogue.csv (the file)
    cancer_genes_df,       \* the reference table held by the notebook
    cancer_genes,          \* the 'Gene Symbol' list of the filtered table
    found_in_cancer_genes, \* node -> boolean
    gene_sets,     \* the global gene_sets: a library name, then (a name for) the dict gmt
    enr_all_nodes, \* ORA result on all nodes
    community_enr, \* index -> ORA result of communityORA(communities[index])
    frames,        \* the data frames alive, by object: tcga_gxp_df, heatmat, data
    tcga_gxp_meta, \* sample -> its 'Smoked' value
    msigdb,        \* the gene-set collection the MSigDB service holds
    classes,       \* the dict classes, as its (sample, label) items in order
    gs_res,        \* GSEA result on all nodes: res2d (heatmat is the frame "heatmat")
    genes,         \* the leading-edge genes picked for the heat maps
    data,          \* the object the name data is bound to
    community_gsea,\* index -> GSEA result of communityGSEA(communities[index])
    gmt,           \* the dict msig.get_gmt returned: the object every GSEA call is handed
    error,         \* the exception that ended the run, or "none"
    gml,           \* the .gml file the load cell has yet to read; <<>> where none is read
    layouts        \* the layouts the runs of the colouring cell have drawn, in order

graphVars  == <<nodeList, adj>>
metricVars == <<sorted_list, closeness, clustering>>
detectVars == <<comm, dq, communities>>
colourVars == <<subgraphs, communityDict>>
annotVars  == <<cancer_csv, cancer_genes_df, cancer_genes, found_in_cancer_genes>>
oraVars    == <<gene_sets, enr_all_nodes, community_enr>>
fileVars   == <<gml>>
layoutVars == <<layouts>>
gseaVars   == <<frames, tcga_gxp_meta, msigdb, classes, gs_res, genes, data, community_gsea>>
pipeVars   == <<annotVars, oraVars, gseaVars, gmt, error>>
vars == <<nb, pc, script, nodeList, adj, sorted_list, closeness, clustering,
          comm, dq, communities, subgraphs, communityDict, detected, pipeVars, fileVars, layoutVars>>

\* ------------------------------------------------------------ helpers
Range(s) == {s[i] : i \in 1..Len(s)}

Idx(n) == CHOOSE i \in 1..Len(NodeSeq) : NodeSeq[i] = n

RECURSIVE SumSet(_, _)
SumSet(S, f) ==
    IF S = {} THEN 0
    ELSE LET x == CHOOSE y \in S : TRUE IN f[x] + SumSet(S \ {x}, f)

\* sorted(s, reverse=True) on <<key, item>> pairs compared by key. Python's sort is
\* stable, also when reversed: elements with equal keys keep their order.
RECURSIVE InsertDesc(_, _)
InsertDesc(s, x) ==
    IF s = <<>> THEN <<x>>
    ELSE IF Head(s)[1] >= x[1] THEN <<Head(s)>> \o InsertDesc(Tail(s), x)
    ELSE <<x>> \o s

RECURSIVE InsertAsc(_, _)
InsertAsc(s, x) ==
    IF s = <<>> THEN <<x>>
    ELSE IF Head(s)[1] <= x[1] THEN <<Head(s)>> \o InsertAsc(Tail(s), x)
    ELSE <<x>> \o s

RECURSIVE SortedAsc(_)
SortedAsc(s) ==
    IF s = <<>> THEN <<>>
    ELSE InsertAsc(SortedAsc(SubSeq(s, 1, Len(s) - 1)), s[Len(s)])

RECURSIVE SortedDesc(_)
SortedDesc(s) ==
    IF s = <<>> THEN <<>>
    ELSE InsertDesc(SortedDesc(SubSeq(s, 1, Len(s) - 1)), s[Len(s)])

Items(s) == [i \in 1..Len(s) |-> s[i][2]]

\* ------------------------------------------------------- graph (networkx)
Nodes == Range(nodeList)

\* G.add_node(n): a new node is appended with no neighbours; an existing one is kept.
AddNodeOp(nl, a, n) ==
    IF n \in Range(nl) THEN <<nl, a>>
    ELSE <<Append(nl, n), [x \in Range(nl) \cup {n} |-> IF x = n THEN {} ELSE a[x]]>>

\* G.add_edge(u, v): missing endpoints are added (u first), then
\* _adj[u][v] and _adj[v][u] are both set.
AddEdgeOneWay(nl, a, u, v) ==
    LET g1 == AddNodeOp(nl, a, u)
        g2 == AddNodeOp(g1[1], g1[2], v)
    IN <<g2[1], [x \in Range(g2[1]) |-> IF x = u THEN g2[2][x] \cup {v} ELSE g2[2][x]]>>

AddEdgeOp(nl, a, u, v) ==
    LET g1 == AddNodeOp(nl, a, u)
        g2 == AddNodeOp(g1[1], g1[2], v)
    IN <<g2[1], [x \in Range(g2[1]) |->
                   IF x = u THEN g2[2][x] \cup {v}
                   ELSE IF x = v THEN g2[2][x] \cup {u}
                   ELSE g2[2][x]]>>

\* G.degree(n): len(nbrs) + (n in nbrs): a self-loop counts twice.
DegreeNoLoop(a, n) == Cardinality(a[n])

DegreeOf(a, n) == Cardinality(a[n]) + (IF n \in a[n] THEN 1 ELSE 0)

\* G.degree(): the (node, degree) pairs in node order.
G_degree(nl, a) == [i \in 1..Len(nl) |-> <<nl[i], DegreeOf(a, nl[i])>>]

\* G.edges(): every edge once, as the set of its endpoints.
EdgeSet(nl, a) == {{p[1], p[2]} : p \in {q \in Range(nl) \X Range(nl) : q[2] \in a[q[1]]}}

\* ------------------------------------------- "create a graph" cell
CreateCell ==
    << <<"node", "A", "A">>,
       <<"node", "B", "B">>, <<"node", "C", "C">>, <<"node", "D", "D">>, <<"node", "E", "E">>,
       <<"edge", "A", "B">>,
       <<"edge", "A", "C">>, <<"edge", "B", "D">>, <<"edge", "C", "D">>, <<"edge", "D", "E">> >>

ApplyOp(nl, a, op) ==
    IF op[1] = "node" THEN AddNodeOp(nl, a, op[2]) ELSE AddEdgeOp(nl, a, op[2], op[3])

\* One statement of the cell (add_nodes_from / add_edges_from add their items in order).
ScriptStep ==
    /\ pc = "build" /\ script >= 0 /\ script < Len(CreateCell)
    /\ LET g == ApplyOp(nodeList, adj, CreateCell[script + 1])
       IN nodeList' = g[1] /\ adj' = g[2]
    /\ script' = script + 1
    /\ UNCHANGED <<fileVars, layoutVars, nb, pc, metricVars, detectVars, colourVars, detected, pipeVars>>

\* Any other construction: nodes enter in NodeSeq order, edges join any two
\* nodes present or the next one.
FreeEndpoints ==
    Nodes \cup (IF Len(nodeList) < MaxNodes THEN {NodeSeq[Len(nodeList) + 1]} ELSE {})

AddNode ==
    /\ pc = "build" /\ script \in {0, -1}
    /\ Len(nodeList) < MaxNodes
    /\ LET g == AddNodeOp(nodeList, adj, NodeSeq[Len(nodeList) + 1])
       IN nodeList' = g[1] /\ adj' = g[2]
    /\ script' = -1
    /\ UNCHANGED <<fileVars, layoutVars, nb, pc, metricVars, detectVars, colourVars, detected, pipeVars>>

AddEdge ==
    /\ pc = "build" /\ script \in {0, -1}
    /\ Cardinality(EdgeSet(nodeList, adj)) < MaxEdges
    /\ \E u \in FreeEndpoints, v \in FreeEndpoints :
         /\ u \in Nodes \/ v \in Nodes \/ u = v
         /\ LET g == AddEdgeOp(nodeList, adj, u, v)
            IN nodeList' = g[1] /\ adj' = g[2]
    /\ script' = -1
    /\ UNCHANGED <<fileVars, layoutVars, nb, pc, metricVars, detectVars, colourVars, detected, pipeVars>>

\* ------------------------------------------------ "sort by degree" cell
\* key=lambda item: item[1]
DegreeKeyed(nl, a) == [i \in 1..Len(nl) |-> <<DegreeOf(a, nl[i]), G_degree(nl, a)[i]>>]

SortDegreeAscending(nl, a) == Items(SortedAsc(DegreeKeyed(nl, a)))

\* sorted(G.degree(), key=lambda item: item[1], reverse=True)
SortDegree(nl, a) == Items(SortedDesc(DegreeKeyed(nl, a)))

SortByDegreeCell ==
    /\ pc = "build"
    /\ script \in {-1, Len(CreateCell)}
    /\ sorted_list' = SortDegree(nodeList, adj)
    /\ pc' = "degree"
    /\ UNCHANGED <<fileVars, layoutVars, nb, script, graphVars, closeness, clustering, detectVars, colourVars, detected, pipeVars>>

\* ---------------------------------------------- closeness centrality cell
\* single_source_shortest_path_length(G, n) by levels: <<len(sp), sum(sp.values())>>.
RECURSIVE BfsTotals(_, _, _, _, _)
BfsTotals(a, frontier, seen, d, tot) ==
    IF frontier = {} THEN <<Cardinality(seen), tot>>
    ELSE LET next == (UNION {a[x] : x \in frontier}) \ seen
         IN BfsTotals(a, next, seen \cup next, d + 1, tot + (d + 1) * Cardinality(next))

ClosenessPlain(nl, a, n) ==
    LET sp == BfsTotals(a, {n}, {n}, 0, 0)
    IN IF sp[2] > 0 /\ Len(nl) > 1 THEN <<sp[1] - 1, sp[2]>> ELSE <<0, 1>>

\* nx.closeness_centrality(G) for one node, wf_improved=True (the default):
\* (len(sp)-1)/totsp, scaled by (len(sp)-1)/(len(G)-1).
ClosenessOf(nl, a, n) ==
    LET sp == BfsTotals(a, {n}, {n}, 0, 0)
    IN IF sp[2] > 0 /\ Len(nl) > 1
       THEN <<(sp[1] - 1) * (sp[1] - 1), sp[2] * (Len(nl) - 1)>>
       ELSE <<0, 1>>

ClosenessCell ==
    /\ pc = "degree"
    /\ closeness' = [n \in Nodes |-> ClosenessOf(nodeList, adj, n)]
    /\ pc' = "closeness"
    /\ UNCHANGED <<fileVars, layoutVars, nb, script, graphVars, sorted_list, clustering, detectVars, colourVars, detected, pipeVars>>

\* ------------------------------------------- clustering coefficient cell
ClusteringWithLoops(a, n) ==
    LET vs == a[n]
        t  == SumSet(vs, [w \in vs |-> Cardinality(vs \cap a[w])])
        d  == Cardinality(vs)
    IN IF t = 0 \/ d < 2 THEN <<0, 1>> ELSE <<t, d * (d - 1)>>

\* nx.clustering(G) for one node: vs = set(nbrs) - {v};
\* t = sum over w in vs of len(vs & (set(G[w]) - {w})); 0 if t == 0 else t / (d*(d-1)).
ClusteringOf(a, n) ==
    LET vs == a[n] \ {n}
        t  == SumSet(vs, [w \in vs |-> Cardinality(vs \cap (a[w] \ {w}))])
        d  == Cardinality(vs)
    IN IF t = 0 THEN <<0, 1>> ELSE <<t, d * (d - 1)>>

ClusteringCell ==
    /\ pc = "closeness"
    /\ clustering' = [n \in Nodes |-> ClusteringOf(adj, n)]
    /\ pc' = "clustering"
    /\ UNCHANGED <<fileVars, layoutVars, nb, script, graphVars, sorted_list, closeness, detectVars, colourVars, detected, pipeVars>>

\* ------------------------------------- greedy_modularity_communities(G)
\* G.size(): half the sum of the degrees.
GraphSize(nl, a) == SumSet(Range(nl), [n \in Range(nl) |-> DegreeOf(a, n)]) \div 2

\* The edges between two communities (dq_dict skips u == v, so no self-loop enters).
EdgesBetween(a, c1, c2) == Cardinality({p \in c1 \X c2 : p[2] \in a[p[1]] /\ p[1] # p[2]})

DegSum(a, c) == SumSet(c, [n \in c |-> DegreeOf(a, n)])

DQNegated(nl, a, c, u, v) ==
    DegSum(a, c[u]) * DegSum(a, c[v]) - 2 * GraphSize(nl, a) * EdgesBetween(a, c[u], c[v])

\* The gain dq of merging the communities labelled u and v:
\* q0*wt - (a[u]*b[v] + b[u]*a[v]) with q0 = 1/m and a = b = degree/(2m), kept exact
\* as its numerator over 2*m*m: 2*m*wt - deg(u)*deg(v).
DQ(nl, a, c, u, v) ==
    2 * GraphSize(nl, a) * EdgesBetween(a, c[u], c[v]) - DegSum(a, c[u]) * DegSum(a, c[v])

\* The entries of the heaps: pairs of labels (u before v in node order) whose
\* communities are joined by an edge.
Joinable(nl, a, c) ==
    {p \in (DOMAIN c) \X (DOMAIN c) :
        Idx(p[1]) < Idx(p[2]) /\ EdgesBetween(a, c[p[1]], c[p[2]]) > 0}

AnyJoinable(nl, a, c) ==
    {p \in Joinable(nl, a, c) : DQ(nl, a, c, p[1], p[2]) >= 0}

\* H.pop(): a pair of the largest dq (which of several equal ones is the heap's
\* business: any of them).
BestPairs(nl, a, c) ==
    {p \in Joinable(nl, a, c) :
        \A q \in Joinable(nl, a, c) : DQ(nl, a, c, q[1], q[2]) <= DQ(nl, a, c, p[1], p[2])}

MergeCommDrop(c, u, v) == [l \in DOMAIN c \ {u} |-> c[l]]

\* communities[v] = frozenset(communities[u] | communities[v]); del communities[u]
MergeComm(c, u, v) ==
    [l \in DOMAIN c \ {u} |-> IF l = v THEN c[u] \cup c[v] ELSE c[l]]

\* communities.values(): the dict keeps the node order of its keys.
CommValues(nl, c) ==
    LET Live(n) == n \in DOMAIN c
        keys == SelectSeq(nl, Live)
    IN [i \in 1..Len(keys) |-> c[keys[i]]]

LenKeyed(s) == [i \in 1..Len(s) |-> <<Cardinality(s[i]), s[i]>>]

DetectorOutputUnsorted(nl, c) == CommValues(nl, c)

\* return sorted(communities, key=len, reverse=True)
DetectorOutput(nl, c) == Items(SortedDesc(LenKeyed(CommValues(nl, c))))

\* The call starts: without edges it returns [{n} for n in G] at once; otherwise
\* every node is its own community.
DetectStart ==
    /\ \/ nb = "NetworkX" /\ pc = "clustering"
       \/ nb = "Enrichment" /\ pc = "ora_all"
    /\ IF GraphSize(nodeList, adj) = 0
       THEN /\ communities' = [i \in 1..Len(nodeList) |-> {nodeList[i]}]
            /\ detected' = communities'
            /\ pc' = "detected"
            /\ UNCHANGED <<comm, dq>>
       ELSE /\ comm' = [n \in Nodes |-> {n}]
            /\ pc' = "merging"
            /\ UNCHANGED <<dq, communities, detected>>
    /\ UNCHANGED <<fileVars, layoutVars, nb, script, graphVars, metricVars, colourVars, pipeVars>>

\* One round of the loop that goes on: more than cutoff = 1 communities, a best
\* pair is popped, its dq is not negative, and the pair is merged.
MergeStep ==
    /\ pc = "merging"
    /\ Cardinality(DOMAIN comm) > 1
    /\ \E p \in BestPairs(nodeList, adj, comm) :
         /\ DQ(nodeList, adj, comm, p[1], p[2]) >= 0
         /\ dq' = DQ(nodeList, adj, comm, p[1], p[2])
         /\ comm' = MergeComm(comm, p[1], p[2])
    /\ UNCHANGED <<fileVars, layoutVars, nb, pc, script, graphVars, metricVars, communities, colourVars, detected, pipeVars>>

\* The loop ends: one community is left, or no pair is joined by an edge (the
\* communities are the connected components), or the best dq is negative.
DetectFinish ==
    /\ pc = "merging"
    /\ \/ Cardinality(DOMAIN comm) <= 1 /\ UNCHANGED dq
       \/ /\ Cardinality(DOMAIN comm) > 1
          /\ Joinable(nodeList, adj, comm) = {}
          /\ UNCHANGED dq
       \/ /\ Cardinality(DOMAIN comm) > 1
          /\ \E p \in BestPairs(nodeList, adj, comm) :
               /\ DQ(nodeList, adj, comm, p[1], p[2]) < 0
               /\ dq' = DQ(nodeList, adj, comm, p[1], p[2])
    /\ communities' = DetectorOutput(nodeList, comm)
    /\ detected' = communities'
    /\ pc' = "detected"
    /\ UNCHANGED <<fileVars, layoutVars, nb, script, graphVars, metricVars, comm, colourVars, pipeVars>>

\* ------------------------------------------------- sub-graphs per community
\* subgraphs.append(G.subgraph(community)): a read-only view of G on the community.
SubgraphView(a, c) == [nodes |-> c, adj |-> [n \in c |-> a[n] \cap c]]

SubgraphsCell ==
    /\ pc = "detected"
    /\ subgraphs' = [i \in 1..Len(communities) |-> SubgraphView(adj, communities[i])]
    /\ pc' = "subgraphs"
    /\ UNCHANGED <<fileVars, layoutVars, nb, script, graphVars, metricVars, detectVars, communityDict, detected, pipeVars>>

\* ------------------------------------------------- colouring by community
\* for i, community in enumerate(communities): for node_id in community:
\*     communityDict[node_id] = i        (a later community overwrites an earlier one)
RECURSIVE BuildCommunityDict(_, _, _)
BuildCommunityDict(cs, i, d) ==
    IF i > Len(cs) THEN d
    ELSE BuildCommunityDict(cs, i + 1,
            [n \in DOMAIN d \cup cs[i] |-> IF n \in cs[i] THEN i - 1 ELSE d[n]])

\* nx.spring_layout starts from positions drawn from a random generator and
\* then iterates without further draws. The outcomes of the first draw:
RngDraws == {0, 1}

\* seed=None takes numpy's global generator, whose state is not set by the
\* notebook: any draw. An integer seed makes a generator of its own: one draw.
DrawsOf(seed) ==
    IF seed = <<>> THEN RngDraws ELSE {seed[1] % Cardinality(RngDraws)}

\* The positions for a draw: none for an empty graph, the centre for a graph of
\* one node, otherwise a place per node that depends on the draw.
Layout(nl, r) ==
    IF Len(nl) <= 1 THEN [n \in Range(nl) |-> 0]
    ELSE [n \in Range(nl) |-> (Idx(n) + r) % Cardinality(RngDraws)]

\* pos = nx.spring_layout(G) in NetworkX.ipynb,
\* pos = nx.spring_layout(G_gxp, k=0.1, seed=50) in the enrichment notebook.
SeedOf(notebook) == IF notebook = "NetworkX" THEN <<>> ELSE <<LayoutSeed>>

\* plt.cm.tab20.colors: the palette of 20 colours.
Palette == [k \in 1..PaletteSize |-> k]

\* communityColours = plt.cm.tab20.colors[:len(communities)]: a slice ends at
\* the end of the palette.
CommunityColours(cs) ==
    SubSeq(Palette, 1, IF Len(cs) < PaletteSize THEN Len(cs) ELSE PaletteSize)

\* nodeColours = [communityColours[communityDict[node]] for node in G.nodes()]
\* raises IndexError for an index past the end of communityColours. The
\* enrichment notebook hands the indices to the colour map (cmap='tab20').
ColourIndexError(notebook, nl, cs, d) ==
    /\ notebook = "NetworkX"
    /\ \E k \in 1..Len(nl) : d[nl[k]] >= Len(CommunityColours(cs))

\* One run of the cell.
ColourRun ==
    /\ error = "none"
    /\ LET d == BuildCommunityDict(communities, 1, <<>>)
       IN /\ communityDict' = d
          /\ IF ColourIndexError(nb, nodeList, communities, d)
             THEN error' = "IndexError" /\ UNCHANGED <<pc, layouts>>
             ELSE /\ \E r \in DrawsOf(SeedOf(nb)) :
                        layouts' = Append(layouts, Layout(nodeList, r))
                  /\ pc' = "coloured"
                  /\ UNCHANGED error
    /\ UNCHANGED <<fileVars, nb, script, graphVars, metricVars, detectVars, subgraphs,
                   detected, annotVars, oraVars, gseaVars, gmt>>

ColourCell == pc = "subgraphs" /\ ColourRun

\* The cell run again on the same graph and communities.
ColourCellAgain == pc = "coloured" /\ Len(layouts) < MaxRuns /\ ColourRun

\* =========================================================================
\*            NetworkClusteringEnrichmentAnalysis.ipynb
\* =========================================================================
\* ------------------------------------------------- data frames (pandas)
\* A frame is its row labels, its column labels and its values, row by row.
PosIn(s, x) == CHOOSE i \in 1..Len(s) : s[i] = x

\* df.loc[labels] with a list of labels: a NEW frame holding the rows of the
\* labels, in the order of the list (a label that is no row: KeyError).
LocRows(df, labels) ==
    [index   |-> labels,
     columns |-> df.columns,
     values  |-> [k \in 1..Len(labels) |-> df.values[PosIn(df.index, labels[k])]]]

LocFails(df, labels) == ~(Range(labels) \subseteq Range(df.index))

\* df.loc[:, cols]: a new frame holding the columns cols, in that order.
LocColumns(df, cols) ==
    [index   |-> df.index,
     columns |-> cols,
     values  |-> [r \in 1..Len(df.index) |->
                    [k \in 1..Len(cols) |-> df.values[r][PosIn(df.columns, cols[k])]]]]

\* A dict kept as its items <<key, value>> in insertion order.
HasKey(d, k) == \E i \in 1..Len(d) : d[i][1] = k

Lookup(d, k) == d[CHOOSE i \in 1..Len(d) : d[i][1] = k][2]

DictValues(d) == [i \in 1..Len(d) |-> d[i][2]]

\* df.rename(columns=mapper): a column that is a key of the mapper takes its
\* value, every other column keeps its label; the values stay.
Rename(df, mapper) ==
    [df EXCEPT !.columns = [k \in 1..Len(df.columns) |->
                              IF HasKey(mapper, df.columns[k])
                              THEN Lookup(mapper, df.columns[k])
                              ELSE df.columns[k]]]

\* ------------------------------------------------------ the loaded files
\* Edges the .gml file may hold: any of the first MaxGmlEdges of the pool.
GmlEdgePool == <<<<"A", "B">>, <<"C", "D">>, <<"E", "F">>, <<"G", "H">>,
                 <<"I", "J">>, <<"B", "C">>, <<"A", "A">>, <<"D", "E">>>>

\* The nodes of the .gml file: enough genes for a gene set to pass the default
\* size filter of GSEA, and one gene more whose expression is flat.
GmlNodes == SubSeq(NodeSeq, 1, GseaMinSize + 2)

FlatGene == NodeSeq[GseaMinSize + 2]

\* nx.read_gml(path): the nodes of the file in file order, and for every edge of
\* the file each endpoint among the neighbours of the other.
ReadGml(ns, es) ==
    <<ns, [n \in Range(ns) |->
             {x \in Range(ns) : <<n, x>> \in Range(es) \/ <<x, n>> \in Range(es)}]>>

\* The samples of the expression table and their 'Smoked' value in datMeta.
Samples == <<"S1", "S2", "S3", "S4", "S5", "S6">>

DatMeta ==
    [s \in Range(Samples) |-> IF s \in {"S1", "S3", "S5"} THEN "Smoker" ELSE "Never"]

\* Other sample tables: one sample that is neither 'Smoker' nor 'Never', no
\* 'Never' sample, no 'Smoker' sample, and no sample of either kind.
MetaTables ==
    {DatMeta,
     [DatMeta EXCEPT !["S6"] = "Unknown"],
     [s \in Range(Samples) |-> "Smoker"],
     [s \in Range(Samples) |-> "Never"],
     [s \in Range(Samples) |-> "Unknown"]}

\* tcga_ge_df_symbols_t.csv after set_index('GENES'): one row per gene in idx,
\* one column per sample.
TcgaFrame(idx) ==
    [index   |-> idx,
     columns |-> Samples,
     values  |-> [r \in 1..Len(idx) |-> [k \in 1..Len(Samples) |->
                    IF idx[r] = FlatGene THEN 1 ELSE Idx(idx[r]) + k * k]]]

\* The gene index of the table: every gene of NodeSeq, or all but one of the
\* genes of the network.
TcgaIndexes ==
    LET NotLast(n) == n # NodeSeq[GseaMinSize + 1]
    IN {NodeSeq, SelectSeq(NodeSeq, NotLast)}

\* cancer_genome_catalogue.csv: rows of 'Gene Symbol' and 'Tier'.
CancerCatalogue ==
    <<[sym |-> "A", tier |-> 1], [sym |-> "B", tier |-> 2],
      [sym |-> "Z", tier |-> 1], [sym |-> "C", tier |-> 2],
      [sym |-> "C", tier |-> 1]>>

\* ---------------------------------------------------------- annotation
\* cancer_genes_df = pd.read_csv(cancer_genes_path)
ReadCancerGenesCell ==
    /\ nb = "Enrichment" /\ pc = "loaded" /\ error = "none"
    /\ cancer_genes_df' = cancer_csv
    /\ pc' = "cancer_read"
    /\ UNCHANGED <<fileVars, layoutVars, nb, script, graphVars, metricVars, detectVars, colourVars, detected,
                   cancer_csv, cancer_genes, found_in_cancer_genes, oraVars, gseaVars,
                   gmt, error>>

AllRows(df) == df

\* cancer_genes_df[cancer_genes_df['Tier']==1]
TierOneRows(df) ==
    LET IsTierOne(row) == row.tier = 1
    IN SelectSeq(df, IsTierOne)

\* cancer_genes_df['Gene Symbol'].tolist()
GeneSymbols(df) == [i \in 1..Len(df) |-> df[i].sym]

\* {node: bool(node in cancer_genes) for node in list(G_gxp.nodes())}
FoundInCancerGenes(nl, cg) == [n \in Range(nl) |-> n \in Range(cg)]

AnnotateCell ==
    /\ nb = "Enrichment" /\ pc = "cancer_read" /\ error = "none"
    /\ cancer_genes_df' = TierOneRows(cancer_genes_df)
    /\ cancer_genes' = GeneSymbols(cancer_genes_df')
    /\ found_in_cancer_genes' = FoundInCancerGenes(nodeList, cancer_genes')
    /\ pc' = "annotated"
    /\ UNCHANGED <<fileVars, layoutVars, nb, script, graphVars, metricVars, detectVars, colourVars, detected,
                   cancer_csv, oraVars, gseaVars, gmt, error>>

\* ------------------------------------------------------------ ORA (Enrichr)
\* The Enrichr libraries, as dicts of term -> genes in the order of the library.
Kegg ==
    LET names == <<"K01", "K02", "K03", "K04", "K05", "K06", "K07", "K08", "K09",
                   "K10", "K11">>
    IN [k \in 1..Len(names) |->
          [Term  |-> names[k],
           Genes |-> IF names[k] = "K10" THEN Range(NodeSeq) \ {"G", "H"}
                     ELSE IF names[k] = "K11" THEN {"Z"}
                     ELSE Range(NodeSeq)]]

EnrichrLibrary(name) == IF name = "KEGG_2021_Human" THEN Kegg ELSE <<>>

\* gp.enrichr(gene_list=..., gene_sets=[name]).results: one row per term of the
\* library that holds a gene of the list, with the genes they share. (The rows
\* are kept in the order of the library; the statistics are left out.)
Enrichr(gene_list, name) ==
    LET lib == EnrichrLibrary(name)
        Hit(t) == t.Genes \cap Range(gene_list) # {}
        rows == SelectSeq(lib, Hit)
    IN [k \in 1..Len(rows) |->
          [Term |-> rows[k].Term, Genes |-> rows[k].Genes \cap Range(gene_list)]]

\* gene_sets = 'KEGG_2021_Human'
GeneSetsCell ==
    /\ nb = "Enrichment" /\ pc = "annotated" /\ error = "none"
    /\ gene_sets' = "KEGG_2021_Human"
    /\ pc' = "gene_sets"
    /\ UNCHANGED <<fileVars, layoutVars, nb, script, graphVars, metricVars, detectVars, colourVars, detected,
                   annotVars, enr_all_nodes, community_enr, gseaVars, gmt, error>>

\* enr_all_nodes = gp.enrichr(gene_list=G_gxp_nodes_list, gene_sets=[gene_sets], ...)
OraAllCell ==
    /\ nb = "Enrichment" /\ pc = "gene_sets" /\ error = "none"
    /\ enr_all_nodes' = Enrichr(nodeList, gene_sets)
    /\ pc' = "ora_all"
    /\ UNCHANGED <<fileVars, layoutVars, nb, script, graphVars, metricVars, detectVars, colourVars, detected,
                   annotVars, gene_sets, community_enr, gseaVars, gmt, error>>

\* list(community): the members of the frozenset once each, in the order the
\* set iterates (any order).
AllListings(S) == {s \in [1..Cardinality(S) -> S] : Range(s) = S}

RECURSIVE ListConversions(_)
ListConversions(cs) ==
    IF cs = <<>> THEN {<<>>}
    ELSE {<<l>> \o rest : l \in AllListings(Head(cs)), rest \in ListConversions(Tail(cs))}

SeqLenKeyed(s) == [i \in 1..Len(s) |-> <<Len(s[i]), s[i]>>]

\* communities = [list(community) for community in communities]
\* communities = sorted(communities, key=len, reverse=True)
SortCommunitiesCell ==
    /\ nb = "Enrichment" /\ pc = "coloured" /\ error = "none"
    /\ \E ls \in ListConversions(communities) :
         communities' = Items(SortedDesc(SeqLenKeyed(ls)))
    /\ pc' = "sorted"
    /\ UNCHANGED <<fileVars, layoutVars, nb, script, graphVars, metricVars, comm, dq, colourVars, detected,
                   pipeVars>>

\* communityN_enr = communityORA(communities[i]): the three calls, taken in any order.
\* def communityORA(genes): gp.enrichr(gene_list=genes, gene_sets=[gene_sets], ...)
CommunityORA(i) ==
    /\ nb = "Enrichment" /\ pc = "sorted" /\ error = "none"
    /\ i \notin DOMAIN community_enr
    /\ IF i >= Len(communities)
       THEN error' = "IndexError" /\ UNCHANGED community_enr
       ELSE /\ community_enr' =
                 [j \in DOMAIN community_enr \cup {i} |->
                    IF j = i THEN Enrichr(communities[i + 1], gene_sets)
                    ELSE community_enr[j]]
            /\ UNCHANGED error
    /\ UNCHANGED <<fileVars, layoutVars, nb, pc, script, graphVars, metricVars, detectVars, colourVars, detected,
                   annotVars, gene_sets, enr_all_nodes, gseaVars, gmt>>

\* for i in range(10): x.add_row([communityN_enr.results['Term'][i] ...]): a result
\* with fewer rows has no label i (KeyError).
OraTableCell ==
    /\ nb = "Enrichment" /\ pc = "sorted" /\ error = "none"
    /\ DOMAIN community_enr = 0..(TopCommunities - 1)
    /\ IF \E i \in DOMAIN community_enr : Len(community_enr[i]) < TopRows
       THEN error' = "KeyError" /\ UNCHANGED pc
       ELSE pc' = "ora_table" /\ UNCHANGED error
    /\ UNCHANGED <<fileVars, layoutVars, nb, script, graphVars, metricVars, detectVars, colourVars, detected,
                   annotVars, oraVars, gseaVars, gmt>>

\* ------------------------------------------------------------------ GSEA
\* for sample in tcga_gxp_df.loc[G_gxp_nodes_list].columns:
\*     'Smoker' -> classes[sample] = 'smoker'; 'Never' -> 'control'; else: pass
ClassItems(cols, meta) ==
    LET Labelled(s) == meta[s] \in {"Smoker", "Never"}
        kept == SelectSeq(cols, Labelled)
    IN [k \in 1..Len(kept) |->
          <<kept[k], IF meta[kept[k]] = "Smoker" THEN "smoker" ELSE "control">>]

ClassesCell ==
    /\ nb = "Enrichment" /\ pc = "ora_table" /\ error = "none"
    /\ IF LocFails(frames["tcga_gxp_df"], nodeList)
          \/ ~(Range(frames["tcga_gxp_df"].columns) \subseteq DOMAIN tcga_gxp_meta)
       THEN error' = "KeyError" /\ UNCHANGED <<pc, classes>>
       ELSE /\ classes' = ClassItems(LocRows(frames["tcga_gxp_df"], nodeList).columns,
                                      tcga_gxp_meta)
            /\ pc' = "classes"
            /\ UNCHANGED error
    /\ UNCHANGED <<fileVars, layoutVars, nb, script, graphVars, metricVars, detectVars, colourVars, detected,
                   annotVars, oraVars, frames, tcga_gxp_meta, msigdb, gs_res, genes, data,
                   community_gsea, gmt>>

\* msig.get_gmt(category='c4.3ca', dbver="2024.1.Hs"): term -> genes.
MsigDb ==
    LET names == <<"M1", "M2", "M3", "M4", "M5", "M6">>
        net == Range(GmlNodes) \ {FlatGene}
    IN [k \in 1..Len(names) |->
          [Term  |-> names[k],
           Genes |-> CASE names[k] = "M1" -> net \ {"A"}
                       [] names[k] = "M2" -> net \ {"C"}
                       [] names[k] = "M3" -> net \ {"E"}
                       [] names[k] = "M4" -> net \ {"G"}
                       [] names[k] = "M5" -> {"A", "B", "Z"}
                       [] OTHER -> Range(NodeSeq)]]

\* A collection whose gene sets all have few genes of the network.
SmallSets ==
    <<[Term |-> "M5", Genes |-> {"A", "B", "Z"}], [Term |-> "M7", Genes |-> {"C", "Z"}]>>

MsigCollections == {MsigDb, SmallSets}

\* gene_sets = msig.get_gmt(...): the global name now refers to the dict.
MsigCell ==
    /\ nb = "Enrichment" /\ pc = "classes" /\ error = "none"
    /\ gmt' = msigdb
    /\ gene_sets' = "c4.3ca"
    /\ pc' = "msig"
    /\ UNCHANGED <<fileVars, layoutVars, nb, script, graphVars, metricVars, detectVars, colourVars, detected,
                   annotVars, enr_all_nodes, community_enr, gseaVars, error>>

\* The sample columns whose label in cls is c, in column order.
ColumnsOfClass(df, cls, c) ==
    LET InClass(col) == cls[PosIn(df.columns, col)] = c
    IN SelectSeq(df.columns, InClass)

\* gsea_cls_parser: the labels of cls must be of two classes (else it raises);
\* the first label is the positive phenotype, the other label the negative one.
ClassNames(cls) == {cls[k] : k \in 1..Len(cls)}

ClsErrorIndex(cls) == IF Cardinality(ClassNames(cls)) # 2 THEN "IndexError" ELSE "none"

\* if len(sample_name) != 2: raise Exception("Input groups have to be 2!")
ClsError(cls) == IF Cardinality(ClassNames(cls)) # 2 THEN "Exception" ELSE "none"

PhenoPos(cls) == cls[1]

PhenoNeg(cls) == cls[CHOOSE k \in 1..Len(cls) :
                       cls[k] # cls[1] /\ \A j \in 1..(k - 1) : cls[j] = cls[1]]

\* load_data: the call works on data.copy(); with one label fewer than columns
\* the first column is taken for a description and dropped; the labels go to the
\* columns by position; a gene whose values have no spread inside any class is
\* dropped.
LoadData(df, cls) ==
    LET num == IF Len(cls) = Len(df.columns) - 1
               THEN LocColumns(df, Tail(df.columns))
               ELSE df
        Flat(r, cols) ==
            \A c1 \in Range(cols), c2 \in Range(cols) :
                num.values[r][PosIn(num.columns, c1)] = num.values[r][PosIn(num.columns, c2)]
        Spread(g) ==
            LET r == PosIn(num.index, g)
            IN ~(Flat(r, ColumnsOfClass(num, cls, PhenoPos(cls)))
                 /\ Flat(r, ColumnsOfClass(num, cls, PhenoNeg(cls))))
    IN LocRows(num, SelectSeq(num.index, Spread))

\* The genes of a gene set that are rows of the data, in row order.
Hits(t, dat) ==
    LET InSet(g) == g \in t.Genes
    IN SelectSeq(dat.index, InSet)

\* load_gmt: a gene set stays when min_size <= hits <= max_size and the hits are
\* fewer than the genes of the data; the others are deleted from the dict.
FilterGmt(g, dat, min_size) ==
    LET Stays(t) ==
            LET n == Len(Hits(t, dat))
            IN min_size <= n /\ n <= GseaMaxSize /\ n < Len(dat.index)
        kept == SelectSeq(g, Stays)
    IN [k \in 1..Len(kept) |-> [Term |-> kept[k].Term, Genes |-> Range(Hits(kept[k], dat))]]

GmtAliased(given, filtered) == filtered

\* load_gmt_only: genesets_dict = gmt.copy(): the filtering works on a copy, the
\* dict the caller handed in is what it was.
GmtOfCaller(given, filtered) == given

\* _heatmat: the data with the columns of the positive class first, then those
\* of the negative class.
Heatmat(dat, cls) ==
    LocColumns(dat, ColumnsOfClass(dat, cls, PhenoPos(cls))
                    \o ColumnsOfClass(dat, cls, PhenoNeg(cls)))

\* gp.gsea(data=df, gene_sets=g, cls=cls, ..., seed=7, min_size=...): the result
\* table res2d has one row per gene set that stays, with its leading-edge genes
\* (kept as all its hits, in row order: the ranking statistic is left out).
Gsea(df, g, cls, min_size) ==
    LET parsed == ClsError(cls) = "none"
        dat == LoadData(df, cls)
        filtered == FilterGmt(g, dat, min_size)
        err == IF ~parsed THEN ClsError(cls)
               ELSE IF Len(dat.index) <= 1 THEN "AssertionError"
               ELSE IF filtered = <<>> THEN "LookupError"
               ELSE "none"
    IN [error   |-> err,
        res2d   |-> IF err # "none" THEN <<>>
                    ELSE [k \in 1..Len(filtered) |->
                            [Term |-> filtered[k].Term,
                             Lead_genes |-> Hits(filtered[k], dat)]],
        heatmat |-> IF err # "none" THEN df ELSE Heatmat(dat, cls),
        gmt     |-> IF ~parsed THEN g ELSE GmtOfCaller(g, filtered)]

\* gs_res = gp.gsea(data=tcga_gxp_df.loc[G_gxp_nodes_list], gene_sets=gene_sets,
\*                  cls=list(classes.values()), ...)
GseaAllCell ==
    /\ nb = "Enrichment" /\ pc = "msig" /\ error = "none"
    /\ LET r == Gsea(LocRows(frames["tcga_gxp_df"], nodeList), gmt,
                     DictValues(classes), GseaMinSize)
       IN /\ gmt' = r.gmt
          /\ IF r.error # "none"
             THEN error' = r.error /\ UNCHANGED <<pc, gs_res, frames>>
             ELSE /\ gs_res' = r.res2d
                  /\ frames' = [o \in DOMAIN frames \cup {"heatmat"} |->
                                  IF o = "heatmat" THEN r.heatmat ELSE frames[o]]
                  /\ pc' = "gsea_all"
                  /\ UNCHANGED error
    /\ UNCHANGED <<fileVars, layoutVars, nb, script, graphVars, metricVars, detectVars, colourVars, detected,
                   annotVars, oraVars, tcga_gxp_meta, msigdb, classes, genes, data,
                   community_gsea>>

\* ------------------------------------------------- heat map and cluster map
\* genes = gs_res.res2d.Lead_genes[i].split(";"); heatmap(df=gs_res.heatmat.loc[genes]);
\* xtick_labels = [classes[item.get_text()] for item in ax.get_xticklabels()]
HeatmapCell ==
    /\ nb = "Enrichment" /\ pc = "gsea_all" /\ error = "none"
    /\ IF TermIndex >= Len(gs_res)
          \/ \E k \in 1..Len(frames["heatmat"].columns) :
                ~HasKey(classes, frames["heatmat"].columns[k])
       THEN error' = "KeyError" /\ UNCHANGED <<pc, genes>>
       ELSE /\ genes' = gs_res[TermIndex + 1].Lead_genes
            /\ pc' = "heatmap"
            /\ UNCHANGED error
    /\ UNCHANGED <<fileVars, layoutVars, nb, script, graphVars, metricVars, detectVars, colourVars, detected,
                   annotVars, oraVars, frames, tcga_gxp_meta, msigdb, classes, gs_res, data,
                   community_gsea, gmt>>

LocObjectView(src, fresh) == src

\* The object df.loc[list] returns: a frame of its own, not a view of df.
LocObject(src, fresh) == fresh

\* genes = gs_res.res2d.Lead_genes[i].split(";")
\* data = gs_res.heatmat.loc[genes]
\* data.rename(columns=classes, inplace=True)
ClustermapCell ==
    /\ nb = "Enrichment" /\ pc = "heatmap" /\ error = "none"
    /\ LET lead == gs_res[TermIndex + 1].Lead_genes
           obj == LocObject("heatmat", "data")
           renamed == Rename(LocRows(frames["heatmat"], lead), classes)
       IN /\ genes' = lead
          /\ data' = obj
          /\ frames' = [o \in DOMAIN frames \cup {obj} |->
                          IF o = obj THEN renamed ELSE frames[o]]
    /\ pc' = "clustermap"
    /\ UNCHANGED <<fileVars, layoutVars, nb, script, graphVars, metricVars, detectVars, colourVars, detected,
                   annotVars, oraVars, tcga_gxp_meta, msigdb, classes, gs_res, community_gsea,
                   gmt, error>>

\* communityN_gsea = communityGSEA(communities[i]): the three calls, taken in any
\* order. def communityGSEA(genes, gene_sets=gene_sets, classes=classes):
\*     gp.gsea(data=tcga_gxp_df.loc[genes], gene_sets=gene_sets,
\*             cls=list(classes.values()), ..., seed=7, min_size=1)
CommunityGSEA(i) ==
    /\ nb = "Enrichment" /\ pc = "clustermap" /\ error = "none"
    /\ i \notin DOMAIN community_gsea
    /\ IF i >= Len(communities)
       THEN error' = "IndexError" /\ UNCHANGED <<community_gsea, gmt>>
       ELSE LET r == Gsea(LocRows(frames["tcga_gxp_df"], communities[i + 1]), gmt,
                          DictValues(classes), CommunityMinSize)
            IN /\ gmt' = r.gmt
               /\ error' = r.error
               /\ IF r.error # "none" THEN UNCHANGED community_gsea
                  ELSE community_gsea' =
                         [j \in DOMAIN community_gsea \cup {i} |->
                            IF j = i THEN r.res2d ELSE community_gsea[j]]
    /\ UNCHANGED <<fileVars, layoutVars, nb, pc, script, graphVars, metricVars, detectVars, colourVars, detected,
                   annotVars, oraVars, frames, tcga_gxp_meta, msigdb, classes, gs_res, genes,
                   data>>

\* ------------------------------------------------------ specification
Init ==
    /\ nb = "NetworkX"
    /\ pc = "build"
    /\ script = 0
    /\ nodeList = <<>>
    /\ adj = <<>>
    /\ sorted_list = <<>>
    /\ closeness = <<>>
    /\ clustering = <<>>
    /\ comm = <<>>
    /\ dq = 0
    /\ communities = <<>>
    /\ subgraphs = <<>>
    /\ communityDict = <<>>
    /\ detected = <<>>
    /\ cancer_csv = <<>>
    /\ cancer_genes_df = <<>>
    /\ cancer_genes = <<>>
    /\ found_in_cancer_genes = <<>>
    /\ gene_sets = "none"
    /\ enr_all_nodes = <<>>
    /\ community_enr = <<>>
    /\ frames = <<>>
    /\ tcga_gxp_meta = <<>>
    /\ msigdb = <<>>
    /\ classes = <<>>
    /\ gs_res = <<>>
    /\ genes = <<>>
    /\ data = "none"
    /\ community_gsea = <<>>
    /\ gmt = <<>>
    /\ error = "none"
    /\ gml = <<>>
    /\ layouts = <<>>

Next ==
    \/ ScriptStep
    \/ AddNode
    \/ AddEdge
    \/ SortByDegreeCell
    \/ ClosenessCell
    \/ ClusteringCell
    \/ DetectStart
    \/ MergeStep
    \/ DetectFinish
    \/ SubgraphsCell
    \/ ColourCell

Spec == Init /\ [][Next]_vars

\* ------------------------------------- the enrichment notebook, after loading
\* The state after the cell that loads the network, the expression table and
\* the sample metadata.
InitLoaded(g, idx, csv, meta, lib) ==
    /\ nb = "Enrichment"
    /\ pc = "loaded"
    /\ script = 0
    /\ nodeList = g[1]
    /\ adj = g[2]
    /\ sorted_list = <<>>
    /\ closeness = <<>>
    /\ clustering = <<>>
    /\ comm = <<>>
    /\ dq = 0
    /\ communities = <<>>
    /\ subgraphs = <<>>
    /\ communityDict = <<>>
    /\ detected = <<>>
    /\ cancer_csv = csv
    /\ cancer_genes_df = <<>>
    /\ cancer_genes = <<>>
    /\ found_in_cancer_genes = <<>>
    /\ gene_sets = "none"
    /\ enr_all_nodes = <<>>
    /\ community_enr = <<>>
    /\ frames = [o \in {"tcga_gxp_df"} |-> TcgaFrame(idx)]
    /\ tcga_gxp_meta = meta
    /\ msigdb = lib
    /\ classes = <<>>
    /\ gs_res = <<>>
    /\ genes = <<>>
    /\ data = "none"
    /\ community_gsea = <<>>
    /\ gmt = <<>>
    /\ error = "none"
    /\ gml = <<>>
    /\ layouts = <<>>

\* The edges of the network the runs with another sample table or gene-set
\* collection load: three communities of two genes.
PairEdges == {1, 2, 3}

\* A network of two genes joined by an edge: one community.
TwoGenes == ReadGml(SubSeq(NodeSeq, 1, 2), <<<<NodeSeq[1], NodeSeq[2]>>>>)

\* Any network of the pool with any gene index, on the usual sample table and
\* collection; or the network of PairEdges with any sample table or collection;
\* or the network of two genes.
InitPipeline ==
    \/ \E S \in SUBSET (1..MaxGmlEdges), idx \in TcgaIndexes,
          meta \in MetaTables, lib \in MsigCollections :
           /\ \/ meta = DatMeta /\ lib = MsigDb
              \/ S = PairEdges /\ idx = NodeSeq /\ (meta = DatMeta \/ lib = MsigDb)
           /\ LET Chosen(e) == \E k \in S : GmlEdgePool[k] = e
              IN InitLoaded(ReadGml(GmlNodes, SelectSeq(GmlEdgePool, Chosen)), idx,
                            CancerCatalogue, meta, lib)
    \/ InitLoaded(TwoGenes, NodeSeq, CancerCatalogue, DatMeta, MsigDb)

NextPipeline ==
    \/ ReadCancerGenesCell
    \/ AnnotateCell
    \/ GeneSetsCell
    \/ OraAllCell
    \/ DetectStart
    \/ MergeStep
    \/ DetectFinish
    \/ SubgraphsCell
    \/ ColourCell
    \/ SortCommunitiesCell
    \/ \E i \in 0..(TopCommunities - 1) : CommunityORA(i)
    \/ OraTableCell
    \/ ClassesCell
    \/ MsigCell
    \/ GseaAllCell
    \/ HeatmapCell
    \/ ClustermapCell
    \/ \E i \in 0..(TopCommunities - 1) : CommunityGSEA(i)

SpecPipeline == InitPipeline /\ [][NextPipeline]_vars

\* ---------------------------------------------- the annotation on its own
\* Reference tables of up to MaxRefRows rows over genes of the network and a
\* gene that is none, with Tier 1 or 2; networks of up to MaxNodes genes.
RefRows == [sym : {"A", "B", "Z"}, tier : {1, 2}]

RefTables == UNION {[1..n -> RefRows] : n \in 0..MaxRefRows}

InitAnnot ==
    \E n \in 0..MaxNodes, csv \in RefTables :
        InitLoaded(ReadGml(SubSeq(NodeSeq, 1, n), <<>>), NodeSeq, csv, DatMeta, MsigDb)

NextAnnot ==
    \/ ReadCancerGenesCell
    \/ AnnotateCell

SpecAnnot == InitAnnot /\ [][NextAnnot]_vars


\* ------------------------------------------------------------ the load cell
\* The .gml files: absent, not parseable, or a list of node entries (id, label)
\* and a list of edge entries (source id, target id).
FileIds == {0, 1}

FileLabels == {"A", "B"}

FileEnds == FileIds \cup {2}

SeqsUpTo(S, n) == UNION {[1..k -> S] : k \in 0..n}

NoFile == [exists |-> FALSE, wellformed |-> FALSE, node |-> <<>>, edge |-> <<>>]

Malformed == [exists |-> TRUE, wellformed |-> FALSE, node |-> <<>>, edge |-> <<>>]

\* The files of up to n node entries and e edge entries.
GmlFiles(n, e) ==
    {NoFile, Malformed}
    \cup {[exists |-> TRUE, wellformed |-> TRUE, node |-> ns, edge |-> es] :
            ns \in SeqsUpTo([id : FileIds, label : FileLabels], n),
            es \in SeqsUpTo(FileEnds \X FileEnds, e)}

\* if id in G: raise NetworkXError("node id ... is duplicated");
\* if node_label in node_labels: raise NetworkXError("node label ... is duplicated")
DuplicatedNode(f) ==
    \E i, j \in 1..Len(f.node) :
        i < j /\ (f.node[i].id = f.node[j].id \/ f.node[i].label = f.node[j].label)

\* if source not in G / target not in G: raise NetworkXError("edge ... has undefined ...")
UndefinedEnd(f) ==
    \E k \in 1..Len(f.edge), e \in 1..2 :
        \A i \in 1..Len(f.node) : f.node[i].id # f.edge[k][e]

\* if G.has_edge(source, target): raise NetworkXError("edge ... is duplicated")
DuplicatedEdge(f) ==
    \E i, j \in 1..Len(f.edge) :
        i < j /\ (f.edge[i] = f.edge[j] \/ f.edge[i] = <<f.edge[j][2], f.edge[j][1]>>)

GmlErrorDuplicatesKept(f) ==
    IF ~f.exists THEN "FileNotFoundError"
    ELSE IF ~f.wellformed \/ UndefinedEnd(f) \/ DuplicatedEdge(f)
         THEN "NetworkXError"
         ELSE "none"

\* nx.read_gml: open() raises FileNotFoundError for a path without a file; the
\* parser raises NetworkXError for text that is not GML and for the defects of
\* the node and edge lists.
GmlError(f) ==
    IF ~f.exists THEN "FileNotFoundError"
    ELSE IF ~f.wellformed \/ DuplicatedNode(f) \/ UndefinedEnd(f) \/ DuplicatedEdge(f)
         THEN "NetworkXError"
         ELSE "none"

\* The graph read_gml builds: G.add_node(id) and G.add_edge(source, target) in
\* file order, then nx.relabel_nodes(G, mapping) from the ids to the labels.
ParseGml(f) ==
    LET nl == [k \in 1..Len(f.node) |-> f.node[k].label]
        Joined(k, i, j) ==
            \/ f.edge[k] = <<f.node[i].id, f.node[j].id>>
            \/ f.edge[k] = <<f.node[j].id, f.node[i].id>>
    IN <<nl,
         [n \in Range(nl) |->
            {nl[j] : j \in {j \in 1..Len(nl) :
                              \E i \in 1..Len(nl), k \in 1..Len(f.edge) :
                                  nl[i] = n /\ Joined(k, i, j)}}]>>

\* G_gxp = nx.read_gml(G_gxp_path); G_gxp_nodes_list = list(G_gxp.nodes());
\* tcga_gxp_df = pd.read_csv(...); tcga_gxp_df.set_index('GENES', inplace=True);
\* tcga_gxp_meta = tcga_gxp['datMeta']. An exception of read_gml ends the cell
\* before any name is assigned.
LoadCell ==
    /\ nb = "Enrichment" /\ pc = "start" /\ error = "none"
    /\ IF GmlError(gml) # "none"
       THEN /\ error' = GmlError(gml)
            /\ UNCHANGED <<pc, graphVars, frames, tcga_gxp_meta>>
       ELSE /\ nodeList' = ParseGml(gml)[1]
            /\ adj' = ParseGml(gml)[2]
            /\ frames' = [o \in {"tcga_gxp_df"} |-> TcgaFrame(NodeSeq)]
            /\ tcga_gxp_meta' = DatMeta
            /\ pc' = "loaded"
            /\ UNCHANGED error
    /\ UNCHANGED <<fileVars, layoutVars, nb, script, metricVars, detectVars, colourVars, detected,
                   annotVars, oraVars, msigdb, classes, gs_res, genes, data,
                   community_gsea, gmt>>

InitLoad ==
    /\ gml \in GmlFiles(MaxFileNodes, MaxFileEdges)
    /\ nb = "Enrichment"
    /\ pc = "start"
    /\ script = 0
    /\ nodeList = <<>>
    /\ adj = <<>>
    /\ sorted_list = <<>>
    /\ closeness = <<>>
    /\ clustering = <<>>
    /\ comm = <<>>
    /\ dq = 0
    /\ communities = <<>>
    /\ subgraphs = <<>>
    /\ communityDict = <<>>
    /\ detected = <<>>
    /\ cancer_csv = CancerCatalogue
    /\ cancer_genes_df = <<>>
    /\ cancer_genes = <<>>
    /\ found_in_cancer_genes = <<>>
    /\ gene_sets = "none"
    /\ enr_all_nodes = <<>>
    /\ community_enr = <<>>
    /\ frames = <<>>
    /\ tcga_gxp_meta = <<>>
    /\ msigdb = MsigDb
    /\ classes = <<>>
    /\ gs_res = <<>>
    /\ genes = <<>>
    /\ data = "none"
    /\ community_gsea = <<>>
    /\ gmt = <<>>
    /\ error = "none"
    /\ layouts = <<>>

\* --------------------------------------- NetworkX.ipynb on isolated nodes
\* The state after the construction of a graph of isolated nodes.
InitIsolated ==
    \E n \in 0..MaxIsolated :
        /\ nb = "NetworkX"
        /\ pc = "build"
        /\ script = -1
        /\ nodeList = SubSeq(NodeSeq, 1, n)
        /\ adj = [x \in Range(SubSeq(NodeSeq, 1, n)) |-> {}]
        /\ sorted_list = <<>>
        /\ closeness = <<>>
        /\ clustering = <<>>
        /\ comm = <<>>
        /\ dq = 0
        /\ communities = <<>>
        /\ subgraphs = <<>>
        /\ communityDict = <<>>
        /\ detected = <<>>
        /\ cancer_csv = <<>>
        /\ cancer_genes_df = <<>>
        /\ cancer_genes = <<>>
        /\ found_in_cancer_genes = <<>>
        /\ gene_sets = "none"
        /\ enr_all_nodes = <<>>
        /\ community_enr = <<>>
        /\ frames = <<>>
        /\ tcga_gxp_meta = <<>>
        /\ msigdb = <<>>
        /\ classes = <<>>
        /\ gs_res = <<>>
        /\ genes = <<>>
        /\ data = "none"
        /\ community_gsea = <<>>
        /\ gmt = <<>>
        /\ error = "none"
        /\ gml = <<>>
        /\ layouts = <<>>

NextIsolated ==
    \/ SortByDegreeCell
    \/ ClosenessCell
    \/ ClusteringCell
    \/ DetectStart
    \/ SubgraphsCell
    \/ ColourCell
    \/ ColourCellAgain

SpecIsolated == InitIsolated /\ [][NextIsolated]_vars

NextLoad == LoadCell

SpecLoad == InitLoad /\ [][NextLoad]_vars

\* =================================================================== claims
\* Definitions the claims are stated with (not part of the program).
Edges == EdgeSet(nodeList, adj)

\* The edge incidences at n: one per edge to another node, two for a self-loop.
Incidences(n) ==
    SumSet({e \in Edges : n \in e}, [e \in Edges |-> IF Cardinality(e) = 1 THEN 2 ELSE 1])

RECURSIVE ReachWithin(_, _)
ReachWithin(n, k) ==
    IF k = 0 THEN {n}
    ELSE LET R == ReachWithin(n, k - 1) IN R \cup UNION {adj[x] : x \in R}

Component(n) == ReachWithin(n, Len(nodeList))

\* The shortest-path distance from n to a node of its component.
Dist(n, v) ==
    CHOOSE k \in 0..Len(nodeList) :
        /\ v \in ReachWithin(n, k)
        /\ k = 0 \/ v \notin ReachWithin(n, k - 1)

DistSum(n) == SumSet(Component(n), [v \in Component(n) |-> Dist(n, v)])

Connected == \A n \in Nodes : Component(n) = Nodes

InUnit(q) == 0 <= q[1] /\ q[1] <= q[2] /\ q[2] > 0

\* The triangles through n: pairs of distinct neighbours (other than n) that are adjacent.
Triangles(n) ==
    LET nb2 == adj[n] \ {n}
    IN Cardinality({e \in SUBSET nb2 : Cardinality(e) = 2 /\
                      \E v \in e, w \in e : v # w /\ w \in adj[v]})

DegreeSorted == nb = "NetworkX" /\ pc # "build"
ClosenessDone == nb = "NetworkX" /\ pc \notin {"build", "degree"}
ClusteringDone == nb = "NetworkX" /\ pc \notin {"build", "degree", "closeness"}

\* C3: after any sequence of add_node / add_edge, the degree of every node is the
\* number of edge incidences at it, and the degrees sum to twice the number of edges;
\* the degree table holds these degrees.
C3_DegreeSum ==
    /\ \A n \in Nodes : DegreeOf(adj, n) = Incidences(n)
    /\ SumSet(Nodes, [n \in Nodes |-> DegreeOf(adj, n)]) = 2 * Cardinality(Edges)
    /\ DegreeSorted =>
         \A i \in 1..Len(sorted_list) : sorted_list[i][2] = Incidences(sorted_list[i][1])

C3_Witness ==
    /\ pc = "degree" /\ script = -1
    /\ Cardinality(Edges) >= 3
    /\ \E n \in Nodes : n \in adj[n]

\* C4: for the graph of the "create a graph" cell (nodes A..E, edges A-B, A-C, B-D,
\* C-D, D-E) the degree of D is 3, no node has a higher degree, and D is the first
\* row of the table sorted by degree in descending order.
ScenarioBuilt == script = Len(CreateCell)

C4_ScenarioDegree ==
    (ScenarioBuilt /\ DegreeSorted) =>
        /\ Nodes = {"A", "B", "C", "D", "E"}
        /\ Edges = {{"A", "B"}, {"A", "C"}, {"B", "D"}, {"C", "D"}, {"D", "E"}}
        /\ DegreeOf(adj, "D") = 3
        /\ \A n \in Nodes : DegreeOf(adj, n) <= 3
        /\ sorted_list[1] = <<"D", 3>>

C4_Witness == ScenarioBuilt /\ pc = "degree" /\ Len(sorted_list) = 5

\* C6 as claimed: closeness = (n-1) / (sum of distances), n the size of the node's own
\* component; 0 for an isolated node; within [0,1] in a connected graph of >= 2 nodes.
C6_Original ==
    ClosenessDone =>
        \A n \in Nodes :
            /\ IF DistSum(n) = 0 THEN closeness[n][1] = 0
               ELSE closeness[n][1] * DistSum(n) = closeness[n][2] * (Cardinality(Component(n)) - 1)
            /\ (Connected /\ Len(nodeList) >= 2) => InUnit(closeness[n])

\* C6 as amended: closeness = ((r / (N-1)) * (r / sum of distances)), r the number of
\* other nodes the node reaches and N the number of nodes of the graph; this is
\* (n-1)/sum in a connected graph; 0 for a node that reaches no other node; within
\* [0,1] in every graph.
C6_Closeness ==
    ClosenessDone =>
        \A n \in Nodes :
            LET r == Cardinality(Component(n)) - 1
            IN /\ IF r = 0 THEN closeness[n][1] = 0
                  ELSE closeness[n][1] * (DistSum(n) * (Len(nodeList) - 1)) = closeness[n][2] * (r * r)
               /\ Connected /\ r > 0 => closeness[n][1] * DistSum(n) = closeness[n][2] * r
               /\ InUnit(closeness[n])

C6_Witness ==
    /\ pc = "closeness"
    /\ ~Connected
    /\ \E n \in Nodes : Cardinality(Component(n)) = 3 /\ closeness[n][1] > 0

\* C7 as claimed: clustering = 2 * triangles / (degree * (degree-1)) for degree >= 2,
\* 0 for degree < 2, with the degree the node's degree (its edge incidences).
C7_Original ==
    ClusteringDone =>
        \A n \in Nodes :
            LET d == DegreeOf(adj, n)
            IN /\ IF d >= 2 THEN clustering[n][1] * (d * (d - 1)) = clustering[n][2] * (2 * Triangles(n))
                  ELSE clustering[n][1] = 0
               /\ InUnit(clustering[n])

\* C7 as amended: the same with the degree counted over the node's neighbours other
\* than itself (a self-loop adds nothing to it).
C7_Clustering ==
    ClusteringDone =>
        \A n \in Nodes :
            LET d == Cardinality(adj[n] \ {n})
            IN /\ IF d >= 2 THEN clustering[n][1] * (d * (d - 1)) = clustering[n][2] * (2 * Triangles(n))
                  ELSE clustering[n][1] = 0
               /\ InUnit(clustering[n])

C7_Witness ==
    /\ pc = "clustering"
    /\ \E n \in Nodes : n \in adj[n] /\ Triangles(n) >= 1 /\ clustering[n] = <<2, 2>>
    /\ \E n \in Nodes : Cardinality(adj[n] \ {n}) = 3 /\ Triangles(n) = 1

\* ------------------------------------------------ community detection
\* The communities held by the notebook, each as a set of nodes.
CommSets == [i \in 1..Len(communities) |-> communities[i]]

Detected == pc \in {"detected", "subgraphs", "coloured"}

\* C1: the returned communities are a partition of the node set: every node is in
\* exactly one community, no community is empty or holds a node that is not in the
\* graph, and a graph with nodes yields at least one community.
C1_Partition ==
    Detected =>
        /\ UNION Range(CommSets) = Nodes
        /\ \A i \in 1..Len(CommSets) : CommSets[i] # {}
        /\ \A i \in 1..Len(CommSets), j \in 1..Len(CommSets) :
               i # j => CommSets[i] \cap CommSets[j] = {}
        /\ \A n \in Nodes : Cardinality({i \in 1..Len(CommSets) : n \in CommSets[i]}) = 1
        /\ Nodes # {} => Len(CommSets) >= 1

C1_Witness ==
    /\ pc = "detected"
    /\ Len(nodeList) >= 4
    /\ Len(communities) = 2
    /\ \E i \in 1..Len(communities) : Cardinality(communities[i]) >= 3

\* Modularity of a partition, scaled by 4*m*m (m edges), is the sum over its
\* communities c of 4*m*(edges inside c) - (sum of the degrees in c)^2: the term
\* of c, over the edge set E.
CommTerm(E, c) ==
    LET Inc(n) == SumSet({e \in E : n \in e},
                         [e \in E |-> IF Cardinality(e) = 1 THEN 2 ELSE 1])
        deg == SumSet(c, [n \in c |-> Inc(n)])
    IN 4 * Cardinality(E) * Cardinality({e \in E : e \subseteq c}) - deg * deg

Merged(P, c1, c2) == (P \ {c1, c2}) \cup {c1 \cup c2}

\* The change of the scaled modularity when c1 and c2 are merged: the terms of
\* the other communities are the same before and after.
Gain(E, c1, c2) == CommTerm(E, c1 \cup c2) - CommTerm(E, c1) - CommTerm(E, c2)

LocalMax(P) ==
    LET E == Edges
    IN \A c1 \in P, c2 \in P : c1 # c2 => Gain(E, c1, c2) <= 0

Touching(c1, c2) == \E x \in c1, y \in c2 : y \in adj[x]

\* A step of the detector from partition P to P2 is a merge of two communities of P
\* whose gain is the largest of all pairs of P and is at least `least`.
GreedyMerge(P, P2, least) ==
    LET E == Edges
    IN \E c1 \in P, c2 \in P :
        /\ c1 # c2
        /\ P2 = Merged(P, c1, c2)
        /\ LET g == Gain(E, c1, c2)
           IN /\ g >= least
              /\ \A d1 \in P, d2 \in P : d1 # d2 => Gain(E, d1, d2) <= g

DetectorStep(least) ==
    /\ (pc # "merging" /\ pc' = "merging") => comm' = [n \in Nodes |-> {n}]
    /\ (pc = "merging" /\ pc' = "merging") =>
           GreedyMerge(Range(CommValues(nodeList, comm)), Range(CommValues(nodeList, comm')), least)
    /\ (pc = "merging" /\ pc' = "detected") =>
           /\ Range(communities') = Range(CommValues(nodeList, comm))
           /\ \A c1 \in Range(communities'), c2 \in Range(communities') :
                  (c1 # c2 /\ Touching(c1, c2)) => Gain(Edges, c1, c2) < least
    /\ (pc # "detected" /\ pc' = "detected") => LocalMax(Range(communities'))

TierOneSymbols ==
    {cancer_csv[k].sym : k \in {j \in 1..Len(cancer_csv) : cancer_csv[j].tier = 1}}

AllSymbols == {cancer_csv[k].sym : k \in 1..Len(cancer_csv)}

AnnotationDone == nb = "Enrichment" /\ pc \notin {"loaded", "cancer_read"}

\* C5: the annotation maps every node of the graph to a boolean that is true
\* exactly when the node is the 'Gene Symbol' of a reference row with Tier == 1
\* (false for a node absent from the reference and for a node listed only with
\* another Tier); its keys are exactly the nodes of the graph, and the stage
\* completes without an error whatever the nodes are.
C5_Annotation ==
    /\ (nb = "Enrichment" /\ pc = "cancer_read") => ENABLED AnnotateCell
    /\ (nb = "Enrichment" /\ pc = "annotated") => error = "none"
    /\ AnnotationDone =>
         /\ DOMAIN found_in_cancer_genes = Nodes
         /\ \A n \in Nodes : found_in_cancer_genes[n] = (n \in TierOneSymbols)

\* The annotation has run on a graph with a Tier 1 gene, a gene listed only
\* with another Tier and a gene the reference does not list.
C5_Witness ==
    /\ AnnotationDone
    /\ \E n \in Nodes : found_in_cancer_genes[n]
    /\ \E n \in Nodes : n \in AllSymbols \ TierOneSymbols /\ ~found_in_cancer_genes[n]
    /\ \E n \in Nodes : n \notin AllSymbols /\ ~found_in_cancer_genes[n]

\* ------------------------------------------- per-community enrichment calls
\* What a call on communities[i] returns when it is the only call made: its
\* result on the genes of the community and the inputs as they were loaded.
OraAlone(i) == Enrichr(communities[i + 1], "KEGG_2021_Human")

GseaAlone(i) ==
    Gsea(LocRows(TcgaFrame(NodeSeq), communities[i + 1]), msigdb,
         DictValues(ClassItems(Samples, tcga_gxp_meta)), CommunityMinSize)

\* C8: the per-community calls are independent and order-insensitive: in
\* whatever order communityORA / communityGSEA run on communities[0..2], each
\* community gets the result it gets when its call runs alone (and a call that
\* fails, fails alone as well).
C8_Independent ==
    /\ \A i \in DOMAIN community_enr : community_enr[i] = OraAlone(i)
    /\ \A i \in DOMAIN community_gsea : community_gsea[i] = GseaAlone(i).res2d
    /\ (pc = "clustermap" /\ error # "none") =>
          \E i \in (0..(TopCommunities - 1)) \ DOMAIN community_gsea :
              i >= Len(communities) \/ GseaAlone(i).error = error

\* All three ORA calls and all three GSEA calls have returned, the GSEA call on
\* all nodes before them having dropped gene sets the per-community calls keep.
C8_Witness ==
    /\ pc = "clustermap" /\ error = "none"
    /\ DOMAIN community_enr = 0..(TopCommunities - 1)
    /\ DOMAIN community_gsea = 0..(TopCommunities - 1)
    /\ \E i \in DOMAIN community_gsea : community_gsea[i] # community_gsea[0]
    /\ \E i \in DOMAIN community_enr : community_enr[i] # community_enr[0]

\* ----------------------------------------------------- inputs are kept
GraphKept == nodeList' = nodeList /\ adj' = adj

FrameKept(o) == o \in DOMAIN frames' /\ frames'[o] = frames[o]

\* C9: no analysis step (metrics, community detection, sub-graph extraction,
\* annotation, enrichment, heat map, cluster map) changes the graph's nodes and
\* edges or a data frame that exists (tcga_gxp_df, the GSEA result's heatmat):
\* the cluster map's in-place rename changes only the new frame data.
C9_InputsKept ==
    [][pc # "build" => GraphKept /\ \A o \in DOMAIN frames : FrameKept(o)]_vars

\* The cluster map cell has renamed the columns of data, after sub-graphs were
\* extracted and the enrichment calls made.
C9_Witness ==
    /\ pc = "clustermap"
    /\ subgraphs # <<>>
    /\ data \in DOMAIN frames
    /\ frames[data].columns # frames["heatmat"].columns
    /\ frames["heatmat"].columns # frames["tcga_gxp_df"].columns

\* ------------------------------------------------- the partition is kept
SetStage == pc \in {"detected", "subgraphs", "coloured"}

ListStage ==
    /\ nb = "Enrichment"
    /\ pc \in {"sorted", "ora_table", "classes", "msig", "gsea_all", "heatmap",
               "clustermap"}

Members(k) == IF ListStage THEN Range(communities[k]) ELSE communities[k]

\* C10: at every stage after the detection (sub-graphs, colouring, the list
\* conversion and re-sort by length, per-community ORA and GSEA) communities is
\* the detector's output: as many communities, in the same order, each with the
\* same members; the sub-graphs and the node-to-community map are built on them.
C10_PartitionKept ==
    (SetStage \/ ListStage) =>
        /\ Len(communities) = Len(detected)
        /\ \A k \in 1..Len(detected) :
              /\ Members(k) = detected[k]
              /\ ListStage => Len(communities[k]) = Cardinality(detected[k])
        /\ pc # "detected" =>
              \A k \in 1..Len(detected) : subgraphs[k].nodes = detected[k]
        /\ pc \notin {"detected", "subgraphs"} =>
              \A n \in Nodes : n \in detected[communityDict[n] + 1]

\* The per-community calls have consumed a partition with communities of
\* different sizes, one of them listed in another order than the nodes'.
C10_Witness ==
    /\ ListStage /\ pc = "clustermap"
    /\ DOMAIN community_gsea = 0..(TopCommunities - 1)
    /\ Cardinality(detected[1]) > Cardinality(detected[Len(detected)])
    /\ \E k \in 1..Len(communities) :
          Len(communities[k]) > 1 /\ Idx(communities[k][1]) > Idx(communities[k][2])

\* ------------------------------------------------------------------- C11
\* The expression matrix the GSEA call on all nodes is handed.
AllNodesData == LocRows(frames["tcga_gxp_df"], nodeList)

\* The terms of a result table.
TermsOf(res) == {res[k].Term : k \in 1..Len(res)}

\* C11: a gene set whose overlap with the genes of the matrix is below the
\* minimum size is skipped and the call goes on: no GSEA call aborts because of
\* such sets, also when every set is too small, and every set whose overlap
\* reaches the minimum size has a row in the result table.
C11_SmallSetsSkipped ==
    /\ ~(error = "LookupError" /\ pc \in {"msig", "clustermap"})
    /\ pc = "gsea_all" =>
          \A k \in 1..Len(gmt) :
              Len(Hits(gmt[k], AllNodesData)) >= GseaMinSize
                  => gmt[k].Term \in TermsOf(gs_res)

\* ------------------------------------------------------------------- C12
\* The class-label list of the GSEA calls.
ClsList == DictValues(classes)

\* One of the two phenotype classes has no member in the class-label list.
ClassEmpty == \E c \in {"smoker", "control"} : c \notin ClassNames(ClsList)

\* The GSEA call on all nodes is the next cell to run.
BeforeGseaAll == nb = "Enrichment" /\ pc = "msig" /\ error = "none"

\* C12 as stated: a GSEA call whose class-label list has no member of one
\* phenotype class fails with an InsufficientSamplesError and returns no result
\* table.
C12_Original ==
    [][(BeforeGseaAll /\ ClassEmpty)
          => (error' = "InsufficientSamplesError" /\ gs_res' = gs_res)]_vars

\* C12: a GSEA call whose class-label list has no member of one phenotype
\* class fails with the plain Exception of the class parser, and the call
\* returns no result table: gs_res and the heat-map matrix stay unset.
C12_ClassEmptyFails ==
    [][(BeforeGseaAll /\ ClassEmpty)
          => (/\ error' = "Exception"
              /\ gs_res' = gs_res /\ gs_res = <<>>
              /\ frames' = frames /\ "heatmat" \notin DOMAIN frames)]_vars

C12_Witness ==
    /\ pc = "msig" /\ error = "Exception"
    /\ ClassNames(ClsList) = {"smoker"}
    /\ gs_res = <<>>

\* ------------------------------------------------------------------- C13
\* The graph invariant: node identifiers are unique and every edge joins two
\* nodes of the node set.
GraphInvariant ==
    /\ \A i, j \in 1..Len(nodeList) : nodeList[i] = nodeList[j] => i = j
    /\ DOMAIN adj = Nodes
    /\ \A n \in Nodes : adj[n] \subseteq Nodes /\ \A x \in adj[n] : n \in adj[x]

\* The load cell has assigned nothing.
NothingLoaded ==
    /\ pc = "start"
    /\ nodeList = <<>> /\ adj = <<>>
    /\ frames = <<>> /\ tcga_gxp_meta = <<>>

\* Two node entries of the file carry the same identifier.
SameIdTwice ==
    \E i, j \in 1..Len(gml.node) : i < j /\ gml.node[i].id = gml.node[j].id

EmptyOverlapTerms ==
    {k \in 1..Len(EnrichrLibrary(gene_sets)) :
        EnrichrLibrary(gene_sets)[k].Genes \cap Nodes = {}}

C15_LayoutsRepeat ==
    \A i, j \in 1..Len(layouts) : layouts[i] = layouts[j]

\* ------------------------------------------------------------------- C16
\* The sample columns of the expression matrix every GSEA call is handed
\* (.loc[genes] selects rows; the columns are those of tcga_gxp_df).
SampleColumns == frames["tcga_gxp_df"].columns

\* C16: at every GSEA call the class-label list has exactly one label per
\* sample column of the data, and the k-th label is the class of the k-th
\* column, whatever 'Smoked' values the metadata table holds.
C16_ClsAligned ==
    (nb = "Enrichment" /\ pc \in {"msig", "clustermap"} /\ error = "none") =>
        /\ Len(ClsList) = Len(SampleColumns)
        /\ \A k \in 1..Len(SampleColumns) :
              /\ HasKey(classes, SampleColumns[k])
              /\ ClsList[k] = Lookup(classes, SampleColumns[k])

\* ------------------------------------------------------------------- C17
\* The colouring cell has built its node-to-community map.
ColouringRun == communities # <<>> /\ (pc = "coloured" \/ error = "IndexError")

\* C17: when the graph is coloured by community, every node has an entry in
\* the node-to-community map, the entry is the index of the one community that
\* holds the node, and the index is a position of the colour list, whatever the
\* number of communities.
C17_ColourIndexValid ==
    (nb = "NetworkX" /\ ColouringRun) =>
        /\ error = "none"
        /\ \A n \in Nodes :
              /\ n \in DOMAIN communityDict
              /\ \A i \in 1..Len(communities) :
                    n \in communities[i] <=> communityDict[n] = i - 1
              /\ communityDict[n] >= 0
              /\ communityDict[n] < Len(CommunityColours(communities))

\* ------------------------------------------------------------------- C18
\* The per-community ORA step is running or has run.
OraStep == nb = "Enrichment" /\ pc \in {"sorted", "ora_table"}

\* The sizes of the list of communities do not increase.
SizesDescend ==
    \A i, j \in 1..Len(communities) :
        i < j => Len(communities[i]) >= Len(communities[j])

\* C18: after the conversion to lists and the descending sort the list is a
\* permutation of the detector's communities with non-increasing sizes, and the
\* per-community ORA step and its table of 10 rows complete without an index
\* error for every partition, also with fewer than 3 communities and with ORA
\* results of fewer than 10 rows.
C18_OraStepCompletes ==
    OraStep =>
        /\ SizesDescend
        /\ \A i \in 1..Len(communities) :
              \E k \in 1..Len(detected) : Range(communities[i]) = detected[k]
        /\ Len(communities) = Len(detected)
        /\ error \notin {"IndexError", "KeyError"}

\* ------------------------------------------------------------------- C19
\* The modularity of the detector's current communities, scaled by 4*m*m.
ScaledModularity(E, c) ==
    SumSet(DOMAIN c, [u \in DOMAIN c |-> CommTerm(E, c[u])])

\* The merges the detector has made so far.
MergesDone(c) == Len(nodeList) - Cardinality(DOMAIN c)

\* A step of the detector that merges two communities.
IsMerge == pc = "merging" /\ pc' = "merging" /\ comm' # comm

\* C19: the greedy agglomeration terminates on every finite graph: each merge
\* makes the number of communities one less, the modularity after a merge is
\* not below the modularity before it, and no more than (number of nodes - 1)
\* merges are made, so the loop cannot run for ever.
C19_MergesTerminate ==
    [][IsMerge =>
          LET E == Edges
          IN /\ Cardinality(DOMAIN comm') = Cardinality(DOMAIN comm) - 1
             /\ Cardinality(DOMAIN comm') >= 1
             /\ ScaledModularity(E, comm') >= ScaledModularity(E, comm)
             /\ MergesDone(comm') <= Len(nodeList) - 1]_vars

\* The detector has stopped after (number of nodes - 1) merges on a graph of
\* three or more nodes.
C19_Witness ==
    /\ nb = "NetworkX" /\ pc = "detected"
    /\ Len(nodeList) >= 3
    /\ comm # <<>> /\ MergesDone(comm) = Len(nodeList) - 1
====
